---- MODULE Spec2Model ----
(***************************************************************************)
(* Model of yandex_tracker_client/connection.py: construction of a         *)
(* Connection, the retry loop of Connection._try_request, and              *)
(* decode_response.                                                        *)
(***************************************************************************)
EXTENDS Integers, Sequences, FiniteSets, TLC

(***************************************************************************)
(* Bounds of the model.                                                    *)
(***************************************************************************)
MaxRetries == 3
MaxDelay == 2
MaxMultiplier == 2
MaxLimit == 1
MaxItems == 2
MaxPayload == 2

RetriesValues == (0 - 1) .. MaxRetries
DelayValues == (0 - 1) .. MaxDelay
MultiplierValues == 1 .. MaxMultiplier
LimitValues == 0 .. MaxLimit

(* Status codes a response can carry: two successes, a 4xx, the two        *)
(* conflict/rate-limit codes, and both ends of [500,600).                  *)
Statuses == {200, 204, 404, 409, 429, 500, 599}

(* Constructor arguments: None (the default), the empty string, or a       *)
(* non-empty string.                                                       *)
Absent == "<None>"
TokenValues == {Absent, "", "token"}
OrgIdValues == {Absent, "", "org"}
CloudOrgIdValues == {Absent, "", "cloud"}
IamTokenValues == {Absent, "", "iam"}

(* <<token, org_id, cloud_org_id, iam_token>> and <<retries,               *)
(* retries_initial_delay, retries_delay_multiplier,                        *)
(* retries_delay_upper_limit>> a Connection is constructed with: every     *)
(* combination of the former with one retry configuration, and every       *)
(* retry configuration with one combination of the former.                 *)
ConstructorArgs ==
    TokenValues \X OrgIdValues \X CloudOrgIdValues \X IamTokenValues
ConstructorConfigs ==
    RetriesValues \X DelayValues \X MultiplierValues \X LimitValues
TypicalArgs == <<"token", "org", Absent, Absent>>
TypicalConfig == <<1, 0, 1, 0>>
BackoffConfig == <<1, 1, 2, 0>>

(* Python truthiness of an optional string argument.                       *)
Truthy(x) == x \notin {Absent, ""}

(* `x or default` *)
OrElse(x, default) == IF Truthy(x) THEN x ELSE default

Max(a, b) == IF a >= b THEN a ELSE b

(* timeout=10, the default of __init__.                                    *)
DefaultTimeout == 10

(* A key a headers dict does not hold (Absent is a key held with the       *)
(* value None).                                                            *)
Unset == "<unset>"

(* Values a request payload can hold: a value json.dumps serialises by     *)
(* itself, Resources and References with some of the attributes            *)
(* encode_resource looks for, and another object that has an id.           *)
Objects ==
    {[type |-> "json", attrs |-> {}],
     [type |-> "Resource", attrs |-> {"key"}],
     [type |-> "Resource", attrs |-> {"uid", "id"}],
     [type |-> "Resource", attrs |-> {}],
     [type |-> "Reference", attrs |-> {"url"}],
     [type |-> "Reference", attrs |-> {}],
     [type |-> "object", attrs |-> {"id"}]}

(* data of a request: None, or a container of at most MaxPayload values.   *)
NoData == [given |-> FALSE, values |-> {}]
DataValues ==
    {NoData} \cup
    {[given |-> TRUE, values |-> v] :
        v \in {w \in SUBSET Objects : Cardinality(w) <= MaxPayload}}

VersionValues == {Absent, "7"}

(* <<entry point, data, files, version>> of a call: request (and the verb  *)
(* bindings of lines 87-91) takes data, files and version, stream takes    *)
(* none of them, link and unlink take a version.                           *)
RequestInputs ==
    {<<"request", d, FALSE, Absent>> : d \in DataValues} \cup
    {<<"request", NoData, f, v>> : f \in BOOLEAN, v \in VersionValues} \cup
    {<<"stream", NoData, FALSE, Absent>>} \cup
    {<<"link", NoData, FALSE, v>> : v \in VersionValues}
DefaultInput == <<"request", NoData, FALSE, Absent>>

VARIABLES
    conn,                       \* "none" | "ok" | "failed": outcome of __init__
    init_error,                 \* error class raised by __init__, "" if none
    init_args,                  \* the four arguments __init__ was called with
    base_url,                   \* self.base_url
    api_version,                \* self.api_version
    timeout,                    \* self.timeout
    session_headers,            \* self.session.headers
    retries,                    \* self.retries
    retries_initial_delay,      \* self.retries_initial_delay
    retries_delay_multiplier,   \* self.retries_delay_multiplier
    retries_delay_upper_limit,  \* self.retries_delay_upper_limit
    pc,                         \* position of the running request
    iterations,                 \* local of _try_request
    retry,                      \* loop variable of _try_request
    retry_delay,                \* local of _try_request
    response,                   \* local of _try_request
    exception,                  \* local of _try_request
    attempts,                   \* calls of session.request in this request
    sleeps,                     \* arguments of time.sleep in this request
    seen,                       \* what the attempts of this request had in
                                \* common: "none" before the first, the class
                                \* of outcome all of them had, or "mixed"
    result,                     \* what the request returned or raised
    content,                    \* body and links of the response decoded
    plist,                      \* the paginated list the consumer iterates
    kwargs                      \* what _request hands to _try_request

vars == <<conn, init_error, init_args, base_url, api_version, timeout,
          session_headers, retries,
          retries_initial_delay, retries_delay_multiplier,
          retries_delay_upper_limit, pc, iterations, retry,
          retry_delay, response, exception, attempts, sleeps, seen, result,
          content, plist, kwargs>>

config == <<conn, init_error, init_args, base_url, api_version, timeout,
            session_headers, retries,
            retries_initial_delay, retries_delay_multiplier,
            retries_delay_upper_limit>>

(* response = None / exception = None *)
NoResponse == [status |-> 0, attempt |-> 0]
NoException == 0
(* The class of an attempt that returned a response with this status.      *)
OutcomeClass(status) ==
    IF 500 <= status /\ status < 600 THEN "5xx"
    ELSE IF status = 409 THEN "409"
    ELSE IF status = 429 THEN "429"
    ELSE "other"

(* The history variable seen after one more attempt of class c.            *)
Seen(old, c) == IF old \in {"none", c} THEN c ELSE "mixed"

NoArgs == [token |-> Absent, org_id |-> Absent, cloud_org_id |-> Absent,
           iam_token |-> Absent]
NoHeaders == [Authorization |-> <<>>, XOrgId |-> Absent,
              ContentType |-> Absent, XCloudOrgId |-> Absent]
NoValue == [type |-> "", items |-> <<>>]
NoResult == [kind |-> "none", error |-> "", response |-> NoResponse,
             cause |-> NoException, value |-> NoValue]
NoList == [buf |-> <<>>, pos |-> 0, next |-> FALSE, gets |-> 0]
NoRequestHeaders == [Link |-> Unset, IfMatch |-> Unset, ContentType |-> Unset]
NoKwargs == [entry |-> "", data |-> NoData, version |-> Absent,
             text |-> {}, files |-> FALSE, stream |-> FALSE,
             headers |-> NoRequestHeaders]
NoContent == [body |-> [kind |-> "", items |-> <<>>], links |-> {},
              parsed |-> FALSE]

(***************************************************************************)
(* Connection.__init__                                                     *)
(***************************************************************************)

(* The checks of __init__ in the order of the code; "" when none fires.    *)
InitErrorNoIamCheck(token, org_id, cloud_org_id, iam_token) ==
    IF Truthy(cloud_org_id) /\ Truthy(org_id) THEN "TrackerClientError"
    ELSE IF Truthy(token) /\ Truthy(iam_token) THEN "TrackerClientError"
    ELSE ""

InitError(token, org_id, cloud_org_id, iam_token) ==
    IF Truthy(cloud_org_id) /\ (Truthy(cloud_org_id) /\ Truthy(org_id))
        THEN "TrackerClientError"
    ELSE IF Truthy(token) /\ Truthy(iam_token) THEN "TrackerClientError"
    ELSE IF Truthy(iam_token) /\ ~Truthy(cloud_org_id)
        THEN "TrackerClientError"
    ELSE ""

(* self.session.headers after a successful __init__.                       *)
InitHeaders(token, org_id, cloud_org_id, iam_token) ==
    [Authorization |-> IF Truthy(iam_token) THEN <<"Bearer", iam_token>>
                       ELSE <<"OAuth", OrElse(token, "not provided")>>,
     XOrgId |-> OrElse(org_id, "not provided"),
     ContentType |-> "application/json",
     XCloudOrgId |-> IF Truthy(cloud_org_id) THEN cloud_org_id ELSE Absent]

Init ==
    /\ conn = "none"
    /\ init_error = ""
    /\ init_args = NoArgs
    /\ base_url = Absent
    /\ api_version = Absent
    /\ timeout = 0
    /\ session_headers = NoHeaders
    /\ retries = 0
    /\ retries_initial_delay = 0
    /\ retries_delay_multiplier = 0
    /\ retries_delay_upper_limit = 0
    /\ pc = "idle"
    /\ iterations = 0
    /\ retry = 0
    /\ retry_delay = 0
    /\ response = NoResponse
    /\ exception = NoException
    /\ attempts = 0
    /\ sleeps = <<>>
    /\ seen = "none"
    /\ result = NoResult
    /\ content = NoContent
    /\ plist = NoList
    /\ kwargs = NoKwargs

request_state == <<pc, iterations, retry, retry_delay, response,
                   exception, attempts, sleeps, seen, result, content,
                   plist, kwargs>>

Construct(token, org_id, cloud_org_id, iam_token, r, d, m, l) ==
    /\ conn = "none"
    /\ init_args' = [token |-> token, org_id |-> org_id,
                     cloud_org_id |-> cloud_org_id, iam_token |-> iam_token]
    /\ init_error' = InitError(token, org_id, cloud_org_id, iam_token)
    /\ IF init_error' = ""
       THEN /\ conn' = "ok"
            /\ session_headers' =
                   InitHeaders(token, org_id, cloud_org_id, iam_token)
            /\ base_url' = "https://api.tracker.yandex.net"
            /\ api_version' = "VERSION_V2"
            /\ timeout' = DefaultTimeout
            /\ retries' = r
            /\ retries_initial_delay' = d
            /\ retries_delay_multiplier' = m
            /\ retries_delay_upper_limit' = l
       ELSE /\ conn' = "failed"
            /\ UNCHANGED <<session_headers, base_url, api_version, timeout,
                           retries, retries_initial_delay,
                           retries_delay_multiplier,
                           retries_delay_upper_limit>>
    /\ UNCHANGED request_state

(***************************************************************************)
(* encode_resource and Connection._request                                 *)
(***************************************************************************)
IdAttributes == <<"key", "uid", "url", "id">>

encode_resource_by_attribute(obj) ==
    LET present == {i \in DOMAIN IdAttributes : IdAttributes[i] \in obj.attrs}
    IN IF present # {}
       THEN [error |-> "",
             attribute |->
                 IdAttributes[CHOOSE i \in present :
                                  \A j \in present : i <= j]]
       ELSE [error |-> "UnencodableValue", attribute |-> ""]

(* Lines 261-269: the first of key, uid, url, id a Resource or Reference   *)
(* has, else UnencodableValue.                                             *)
encode_resource(obj) ==
    LET present == {i \in DOMAIN IdAttributes : IdAttributes[i] \in obj.attrs}
    IN IF obj.type \in {"Resource", "Reference"} /\ present # {}
       THEN [error |-> "",
             attribute |->
                 IdAttributes[CHOOSE i \in present :
                                  \A j \in present : i <= j]]
       ELSE [error |-> "UnencodableValue", attribute |-> ""]

(* Line 138, json.dumps(data, default=encode_resource): a value json       *)
(* cannot serialise goes through encode_resource, whose error escapes.     *)
dumps(values) ==
    LET encoded == [o \in values |->
                       IF o.type = "json"
                       THEN [error |-> "", attribute |-> "json"]
                       ELSE encode_resource(o)]
    IN IF \E o \in values : encoded[o].error # ""
       THEN [error |-> "UnencodableValue", text |-> {}]
       ELSE [error |-> "", text |-> {encoded[o].attribute : o \in values}]

(* '"{}"'.format(version) *)
Quoted(version) == "\"" \o version \o "\""

(* The headers dict of _request: Link from _link (line 111), If-Match      *)
(* from a version (lines 135-136), Content-Type: None for files (lines     *)
(* 141-142).                                                               *)
RequestHeaders(entry, version, files) ==
    [Link |-> IF entry = "link" THEN "<resource>; rel=\"rel\"" ELSE Unset,
     IfMatch |-> IF version # Absent THEN Quoted(version) ELSE Unset,
     ContentType |-> IF files THEN Absent ELSE Unset]

(***************************************************************************)
(* Connection._try_request                                                 *)
(***************************************************************************)

IterationsNoMinimum(r) == r + 1

(* iterations = max(self.retries + 1, 1) *)
Iterations(r) == Max(r + 1, 1)

RetryableOnlyWithDelay(status, delay) ==
    /\ (500 <= status /\ status < 600) \/ status \in {429, 409}
    /\ delay > 0

RetryableAtZeroDelay(status, delay) ==
    \/ (500 <= status /\ status < 600)
    \/ (status \in {429, 409} /\ delay >= 0)

(* The condition of line 171.                                              *)
Retryable(status, delay) ==
    \/ (500 <= status /\ status < 600)
    \/ (status \in {429, 409} /\ delay > 0)

NextDelayClampsToZero(delay, multiplier, limit) ==
    LET multiplied == IF multiplier > 1 THEN delay * multiplier ELSE delay
    IN IF limit < multiplied THEN limit ELSE multiplied

(* Lines 183-186: the delay after one backoff update.                      *)
NextDelay(delay, multiplier, limit) ==
    LET multiplied == IF multiplier > 1 THEN delay * multiplier ELSE delay
    IN IF 0 < limit /\ limit < multiplied THEN limit ELSE multiplied

RequestClearsSessionContentType(entry, data, files, version) ==
    LET dumped == IF data.given THEN dumps(data.values)
                  ELSE [error |-> "", text |-> {}]
        raised == dumped.error # ""
        headers == RequestHeaders(entry, version, files /\ ~raised)
    IN
    /\ conn = "ok"
    /\ pc \in {"idle", "done"}
    /\ kwargs' = [entry |-> entry, data |-> data, version |-> version,
                  text |-> dumped.text, files |-> files,
                  stream |-> (entry = "stream"), headers |-> headers]
    /\ session_headers' =
           [session_headers EXCEPT
               !.ContentType = IF headers.ContentType = Absent THEN Absent
                               ELSE @]
    /\ response' = NoResponse
    /\ exception' = NoException
    /\ iterations' = IF raised THEN 0 ELSE Iterations(retries)
    /\ retry_delay' = IF raised THEN 0 ELSE retries_initial_delay
    /\ retry' = 0
    /\ attempts' = 0
    /\ sleeps' = <<>>
    /\ seen' = "none"
    /\ result' = IF raised
                 THEN [NoResult EXCEPT !.kind = "raised",
                                       !.error = dumped.error]
                 ELSE NoResult
    /\ content' = NoContent
    /\ plist' = NoList
    /\ pc' = IF raised THEN "done" ELSE "loop"
    /\ UNCHANGED <<conn, init_error, init_args, base_url, api_version,
                   timeout, retries, retries_initial_delay,
                   retries_delay_multiplier, retries_delay_upper_limit>>

RequestKeepsDelay(entry, data, files, version) ==
    LET dumped == IF data.given THEN dumps(data.values)
                  ELSE [error |-> "", text |-> {}]
        raised == dumped.error # ""
        headers == RequestHeaders(entry, version, files /\ ~raised)
    IN
    /\ conn = "ok"
    /\ pc \in {"idle", "done"}
    /\ kwargs' = [entry |-> entry, data |-> data, version |-> version,
                  text |-> dumped.text, files |-> files,
                  stream |-> (entry = "stream"), headers |-> headers]
    /\ response' = NoResponse
    /\ exception' = NoException
    /\ iterations' = IF raised THEN 0 ELSE Iterations(retries)
    /\ retry_delay' = IF raised THEN 0
                    ELSE IF retry_delay > 0 THEN retry_delay
                    ELSE retries_initial_delay
    /\ retry' = 0
    /\ attempts' = 0
    /\ sleeps' = <<>>
    /\ seen' = "none"
    /\ result' = IF raised
                 THEN [NoResult EXCEPT !.kind = "raised",
                                       !.error = dumped.error]
                 ELSE NoResult
    /\ content' = NoContent
    /\ plist' = NoList
    /\ pc' = IF raised THEN "done" ELSE "loop"
    /\ UNCHANGED config

(* Lines 93-153 and 156-162: an entry point builds the headers of this     *)
(* call and encodes its data in _request, which raises UnencodableValue    *)
(* or enters _try_request.                                                 *)
Request(entry, data, files, version) ==
    LET dumped == IF data.given THEN dumps(data.values)
                  ELSE [error |-> "", text |-> {}]
        raised == dumped.error # ""
        headers == RequestHeaders(entry, version, files /\ ~raised)
    IN
    /\ conn = "ok"
    /\ pc \in {"idle", "done"}
    /\ kwargs' = [entry |-> entry, data |-> data, version |-> version,
                  text |-> dumped.text, files |-> files,
                  stream |-> (entry = "stream"), headers |-> headers]
    /\ response' = NoResponse
    /\ exception' = NoException
    /\ iterations' = IF raised THEN 0 ELSE Iterations(retries)
    /\ retry_delay' = IF raised THEN 0 ELSE retries_initial_delay
    /\ retry' = 0
    /\ attempts' = 0
    /\ sleeps' = <<>>
    /\ seen' = "none"
    /\ result' = IF raised
                 THEN [NoResult EXCEPT !.kind = "raised",
                                       !.error = dumped.error]
                 ELSE NoResult
    /\ content' = NoContent
    /\ plist' = NoList
    /\ pc' = IF raised THEN "done" ELSE "loop"
    /\ UNCHANGED config

AttemptRaisesEscapes ==
    /\ pc = "loop"
    /\ retry < iterations
    /\ attempts' = attempts + 1
    /\ exception' = attempts + 1
    /\ seen' = Seen(seen, "raised")
    /\ pc' = "after_loop"
    /\ UNCHANGED <<config, iterations, retry, retry_delay, response,
                   sleeps, result, content, plist, kwargs>>

(* Lines 165-168: session.request raises.                                  *)
AttemptRaises ==
    /\ pc = "loop"
    /\ retry < iterations
    /\ attempts' = attempts + 1
    /\ exception' = attempts + 1
    /\ seen' = Seen(seen, "raised")
    /\ pc' = "backoff"
    /\ UNCHANGED <<config, iterations, retry, retry_delay, response,
                   sleeps, result, content, plist, kwargs>>

(* Lines 165-178: session.request returns a response.                      *)
AttemptResponds(status) ==
    /\ pc = "loop"
    /\ retry < iterations
    /\ attempts' = attempts + 1
    /\ response' = [status |-> status, attempt |-> attempts + 1]
    /\ exception' = NoException
    /\ seen' = Seen(seen, OutcomeClass(status))
    /\ pc' = IF Retryable(status, retry_delay) THEN "backoff"
             ELSE "after_loop"
    /\ UNCHANGED <<config, iterations, retry, retry_delay, sleeps,
                   result, content, plist, kwargs>>

BackoffSkipsLastSleep ==
    /\ pc = "backoff"
    /\ sleeps' = IF retry_delay > 0 /\ retry + 1 < iterations
                 THEN Append(sleeps, retry_delay)
                 ELSE sleeps
    /\ retry_delay' = NextDelay(retry_delay, retries_delay_multiplier,
                                retries_delay_upper_limit)
    /\ retry' = retry + 1
    /\ pc' = "loop"
    /\ UNCHANGED <<config, iterations, response, exception, attempts,
                   seen, result, content, plist, kwargs>>

(* Lines 180-186, then the for loop goes to its next value.               *)
Backoff ==
    /\ pc = "backoff"
    /\ sleeps' = IF retry_delay > 0 THEN Append(sleeps, retry_delay)
                 ELSE sleeps
    /\ retry_delay' = NextDelay(retry_delay, retries_delay_multiplier,
                                retries_delay_upper_limit)
    /\ retry' = retry + 1
    /\ pc' = "loop"
    /\ UNCHANGED <<config, iterations, response, exception, attempts,
                   seen, result, content, plist, kwargs>>

(* Line 164: range(iterations) is exhausted.                               *)
LoopExit ==
    /\ pc = "loop"
    /\ retry >= iterations
    /\ pc' = "after_loop"
    /\ UNCHANGED <<config, iterations, retry, retry_delay, response,
                   exception, attempts, sleeps, seen, result, content,
                   plist, kwargs>>

(* exceptions.STATUS_CODES: the status -> error class table.               *)
STATUS_CODES == [s \in {404, 409} |->
                    IF s = 404 THEN "NotFound" ELSE "Conflict"]

(* dict.get(key, default) *)
Get(table, key, default) ==
    IF key \in DOMAIN table THEN table[key] ELSE default

TerminalOutcomeNoTable(exc, resp) ==
    IF exc # NoException
        THEN [kind |-> "raised", error |-> "TrackerRequestError",
              response |-> NoResponse, cause |-> exc, value |-> NoValue]
    ELSE IF 500 <= resp.status /\ resp.status < 600
        THEN [kind |-> "raised", error |-> "OutOfRetries",
              response |-> resp, cause |-> NoException, value |-> NoValue]
    ELSE IF 400 <= resp.status /\ resp.status < 500
        THEN [kind |-> "raised", error |-> "TrackerServerError",
              response |-> resp, cause |-> NoException, value |-> NoValue]
    ELSE [kind |-> "returned", error |-> "", response |-> resp,
          cause |-> NoException, value |-> NoValue]

TerminalOutcomeExhausted(exc, resp) ==
    IF exc # NoException
        THEN [kind |-> "raised", error |-> "TrackerRequestError",
              response |-> NoResponse, cause |-> exc, value |-> NoValue]
    ELSE IF (500 <= resp.status /\ resp.status < 600)
            \/ resp.status \in {429, 409}
        THEN [kind |-> "raised", error |-> "OutOfRetries",
              response |-> resp, cause |-> NoException, value |-> NoValue]
    ELSE IF 400 <= resp.status /\ resp.status < 500
        THEN [kind |-> "raised",
              error |-> Get(STATUS_CODES, resp.status, "TrackerServerError"),
              response |-> resp, cause |-> NoException, value |-> NoValue]
    ELSE [kind |-> "returned", error |-> "", response |-> resp,
          cause |-> NoException, value |-> NoValue]

TerminalOutcomeResponseFirst(exc, resp) ==
    IF resp.attempt > 0 /\ 500 <= resp.status /\ resp.status < 600
        THEN [kind |-> "raised", error |-> "OutOfRetries",
              response |-> resp, cause |-> NoException, value |-> NoValue]
    ELSE IF resp.attempt > 0 /\ 400 <= resp.status /\ resp.status < 500
        THEN [kind |-> "raised",
              error |-> Get(STATUS_CODES, resp.status, "TrackerServerError"),
              response |-> resp, cause |-> NoException, value |-> NoValue]
    ELSE IF exc # NoException
        THEN [kind |-> "raised", error |-> "TrackerRequestError",
              response |-> NoResponse, cause |-> exc, value |-> NoValue]
    ELSE [kind |-> "returned", error |-> "", response |-> resp,
          cause |-> NoException, value |-> NoValue]

(* Lines 188-199: what _try_request raises or returns after the loop.      *)
TerminalOutcome(exc, resp) ==
    IF exc # NoException
        THEN [kind |-> "raised", error |-> "TrackerRequestError",
              response |-> NoResponse, cause |-> exc, value |-> NoValue]
    ELSE IF 500 <= resp.status /\ resp.status < 600
        THEN [kind |-> "raised", error |-> "OutOfRetries",
              response |-> resp, cause |-> NoException, value |-> NoValue]
    ELSE IF 400 <= resp.status /\ resp.status < 500
        THEN [kind |-> "raised",
              error |-> Get(STATUS_CODES, resp.status, "TrackerServerError"),
              response |-> resp, cause |-> NoException, value |-> NoValue]
    ELSE [kind |-> "returned", error |-> "", response |-> resp,
          cause |-> NoException, value |-> NoValue]

(* Lines 188-199; a raised error ends the request, a returned response     *)
(* goes to decode_response (line 126).                                     *)
Finish ==
    /\ pc = "after_loop"
    /\ LET outcome == TerminalOutcome(exception, response)
       IN IF outcome.kind = "returned" /\ kwargs.stream
          THEN /\ result' = [outcome EXCEPT
                                !.value = [type |-> "iter_content",
                                           items |-> <<>>]]
               /\ pc' = "done"
          ELSE /\ result' = outcome
               /\ pc' = IF outcome.kind = "raised" THEN "done" ELSE "decode"
    /\ UNCHANGED <<config, iterations, retry, retry_delay, response,
                   exception, attempts, sleeps, seen, content, plist,
                   kwargs>>

(***************************************************************************)
(* decode_response                                                         *)
(***************************************************************************)

(* Elements of a decoded JSON list: plain values, and the References the   *)
(* object hook made of objects with a "self" field (with or without a      *)
(* _local_fields_map attribute).                                           *)
Items ==
    {[type |-> "raw", path |-> 0, value |-> 1, lfm |-> FALSE]}
    \cup {[type |-> "Reference", path |-> 1, value |-> 2, lfm |-> b] :
              b \in BOOLEAN}

(* Decoded lists: elements pairwise different, so that their order shows.  *)
ItemLists ==
    {l \in UNION {[1..n -> Items] : n \in 0..MaxItems} :
        \A i, j \in 1..Len(l) : i # j => l[i] # l[j]}

(* Response bodies: empty, not JSON, an object with "self", a list, any    *)
(* other JSON value.                                                       *)
Bodies ==
    {[kind |-> k, items |-> <<>>] :
        k \in {"empty", "invalid", "reference", "other"}}
    \cup {[kind |-> "list", items |-> l] : l \in ItemLists}

LinkSets == SUBSET {"next", "seek"}

(* Lines 237-242: the element appended to items for one decoded element.   *)
UpgradeItem(item) ==
    IF item.type = "Reference"
        THEN [type |-> "Resource", path |-> item.path, value |-> item.value,
              lfm |-> item.lfm]
    ELSE item

decode_response_prepending(body, links) ==
    IF body.kind = "empty"
        THEN [error |-> "", type |-> "None", items |-> <<>>,
              parsed |-> FALSE]
    ELSE IF body.kind = "invalid"
        THEN [error |-> "InvalidJSONResponse", type |-> "", items |-> <<>>,
              parsed |-> TRUE]
    ELSE IF body.kind = "reference"
        THEN [error |-> "", type |-> "Resource", items |-> <<>>,
              parsed |-> TRUE]
    ELSE IF body.kind = "list"
        THEN LET n == Len(body.items)
                 items == [i \in 1..n |-> UpgradeItem(body.items[n + 1 - i])]
             IN IF "next" \in links
                   THEN IF "seek" \in links
                           THEN [error |-> "",
                                 type |-> "SeekablePaginatedList",
                                 items |-> items, parsed |-> TRUE]
                           ELSE [error |-> "", type |-> "PaginatedList",
                                 items |-> items, parsed |-> TRUE]
                   ELSE [error |-> "", type |-> "list", items |-> items,
                         parsed |-> TRUE]
    ELSE [error |-> "", type |-> "value", items |-> <<>>, parsed |-> TRUE]

decode_response_seek_alone(body, links) ==
    IF body.kind = "empty"
        THEN [error |-> "", type |-> "None", items |-> <<>>,
              parsed |-> FALSE]
    ELSE IF body.kind = "invalid"
        THEN [error |-> "InvalidJSONResponse", type |-> "", items |-> <<>>,
              parsed |-> TRUE]
    ELSE IF body.kind = "reference"
        THEN [error |-> "", type |-> "Resource", items |-> <<>>,
              parsed |-> TRUE]
    ELSE IF body.kind = "list"
        THEN LET items == [i \in 1..Len(body.items) |->
                              UpgradeItem(body.items[i])]
             IN IF "seek" \in links
                   THEN [error |-> "", type |-> "SeekablePaginatedList",
                         items |-> items, parsed |-> TRUE]
                   ELSE IF "next" \in links
                           THEN [error |-> "", type |-> "PaginatedList",
                                 items |-> items, parsed |-> TRUE]
                           ELSE [error |-> "", type |-> "list",
                                 items |-> items, parsed |-> TRUE]
    ELSE [error |-> "", type |-> "value", items |-> <<>>, parsed |-> TRUE]

decode_response_parses_first(body, links) ==
    IF body.kind \in {"empty", "invalid"}
        THEN [error |-> "InvalidJSONResponse", type |-> "", items |-> <<>>,
              parsed |-> TRUE]
    ELSE IF body.kind = "reference"
        THEN [error |-> "", type |-> "Resource", items |-> <<>>,
              parsed |-> TRUE]
    ELSE IF body.kind = "list"
        THEN LET items == [i \in 1..Len(body.items) |->
                              UpgradeItem(body.items[i])]
             IN IF "next" \in links
                   THEN IF "seek" \in links
                           THEN [error |-> "",
                                 type |-> "SeekablePaginatedList",
                                 items |-> items, parsed |-> TRUE]
                           ELSE [error |-> "", type |-> "PaginatedList",
                                 items |-> items, parsed |-> TRUE]
                   ELSE [error |-> "", type |-> "list", items |-> items,
                         parsed |-> TRUE]
    ELSE [error |-> "", type |-> "value", items |-> <<>>, parsed |-> TRUE]

(* Lines 215-258: the value decode_response returns, or the error; parsed  *)
(* tells whether response.json was called.                                 *)
decode_response(body, links) ==
    IF body.kind = "empty"
        THEN [error |-> "", type |-> "None", items |-> <<>>,
              parsed |-> FALSE]
    ELSE IF body.kind = "invalid"
        THEN [error |-> "InvalidJSONResponse", type |-> "", items |-> <<>>,
              parsed |-> TRUE]
    ELSE IF body.kind = "reference"
        THEN [error |-> "", type |-> "Resource", items |-> <<>>,
              parsed |-> TRUE]
    ELSE IF body.kind = "list"
        THEN LET items == [i \in 1..Len(body.items) |->
                              UpgradeItem(body.items[i])]
             IN IF "next" \in links
                   THEN IF "seek" \in links
                           THEN [error |-> "",
                                 type |-> "SeekablePaginatedList",
                                 items |-> items, parsed |-> TRUE]
                           ELSE [error |-> "", type |-> "PaginatedList",
                                 items |-> items, parsed |-> TRUE]
                   ELSE [error |-> "", type |-> "list", items |-> items,
                         parsed |-> TRUE]
    ELSE [error |-> "", type |-> "value", items |-> <<>>, parsed |-> TRUE]

DecodeRetriesInvalid(body, links) ==
    /\ pc = "decode"
    /\ LET d == decode_response(body, links)
       IN /\ content' = [body |-> body, links |-> links,
                         parsed |-> d.parsed]
          /\ result' =
               IF d.error # "" THEN NoResult
               ELSE [result EXCEPT !.value = [type |-> d.type,
                                              items |-> d.items]]
          /\ pc' = IF d.error # "" THEN "loop" ELSE "done"
    /\ UNCHANGED <<config, iterations, retry, retry_delay, response,
                   exception, attempts, sleeps, seen, plist,
                   kwargs>>

(* Line 126: request() decodes the response _request returned.             *)
Decode(body, links) ==
    /\ pc = "decode"
    /\ LET d == decode_response(body, links)
       IN /\ content' = [body |-> body, links |-> links,
                         parsed |-> d.parsed]
          /\ result' =
               IF d.error # ""
                   THEN [kind |-> "raised", error |-> d.error,
                         response |-> response, cause |-> NoException,
                         value |-> NoValue]
               ELSE [result EXCEPT !.value = [type |-> d.type,
                                              items |-> d.items]]
    /\ pc' = "done"
    /\ UNCHANGED <<config, iterations, retry, retry_delay, response,
                   exception, attempts, sleeps, seen, plist,
                   kwargs>>

(***************************************************************************)
(* PaginatedList / SeekablePaginatedList and their consumer                *)
(***************************************************************************)

PaginatedTypes == {"PaginatedList", "SeekablePaginatedList"}

(* The request is over and its caller goes on: the locals of               *)
(* _try_request and the record of the call are gone.                       *)
CallOver ==
    /\ pc' = "idle"
    /\ iterations' = 0
    /\ retry' = 0
    /\ retry_delay' = 0
    /\ response' = NoResponse
    /\ exception' = NoException
    /\ attempts' = 0
    /\ sleeps' = <<>>
    /\ seen' = "none"
    /\ result' = NoResult
    /\ content' = NoContent
    /\ kwargs' = NoKwargs

(* The consumer starts to iterate the list request() returned: the         *)
(* buffered items are the head.                                            *)
IterStart ==
    /\ pc = "done"
    /\ result.kind = "returned"
    /\ result.value.type \in PaginatedTypes
    /\ plist' = [buf |-> result.value.items, pos |-> 0, next |-> TRUE,
                 gets |-> 0]
    /\ CallOver
    /\ UNCHANGED config

(* The consumer takes the next buffered item.                              *)
IterNext ==
    /\ pc = "idle"
    /\ plist.pos < Len(plist.buf)
    /\ plist' = [plist EXCEPT !.pos = @ + 1]
    /\ UNCHANGED <<config, pc, iterations, retry, retry_delay,
                   response, exception, attempts, sleeps, seen, result,
                   content, kwargs>>

(* The consumer advances past the buffered items: the list issues the GET  *)
(* of the next-page URL. What the page holds is left open.                 *)
IterFetch ==
    /\ pc = "idle"
    /\ plist.next
    /\ plist.pos = Len(plist.buf)
    /\ plist' = [plist EXCEPT !.next = FALSE, !.gets = @ + 1]
    /\ UNCHANGED <<config, pc, iterations, retry, retry_delay,
                   response, exception, attempts, sleeps, seen, result,
                   content, kwargs>>

(* The retry configurations under which bodies of more than one item      *)
(* are decoded, and the connections the calls with other than the default  *)
(* arguments are made on, as the first call or the first after a list was  *)
(* iterated: one that never sleeps and one that backs off.                 *)
TypicalRetryConfig ==
    <<retries, retries_initial_delay, retries_delay_multiplier,
      retries_delay_upper_limit>> \in {TypicalConfig, BackoffConfig}
TypicalConnection ==
    /\ init_args = [token |-> TypicalArgs[1], org_id |-> TypicalArgs[2],
                    cloud_org_id |-> TypicalArgs[3],
                    iam_token |-> TypicalArgs[4]]
    /\ TypicalRetryConfig

Next ==
    \/ /\ conn = "none"
       /\ \E a \in ConstructorArgs, c \in ConstructorConfigs :
             /\ (a = TypicalArgs \/ c = TypicalConfig)
             /\ Construct(a[1], a[2], a[3], a[4], c[1], c[2], c[3], c[4])
    \/ /\ conn = "ok"
       /\ pc \in {"idle", "done"}
       /\ \E i \in RequestInputs :
             /\ (i = DefaultInput \/ (TypicalConnection /\ pc = "idle"))
             /\ Request(i[1], i[2], i[3], i[4])
    \/ AttemptRaises
    \/ \E status \in Statuses : AttemptResponds(status)
    \/ Backoff
    \/ LoopExit
    \/ Finish
    \/ /\ pc = "decode"
       /\ \E body \in Bodies, links \in LinkSets :
             /\ (Len(body.items) <= 1 \/ TypicalRetryConfig)
             /\ Decode(body, links)
    \/ IterStart
    \/ IterNext
    \/ IterFetch

Spec == Init /\ [][Next]_vars

(* A started request runs on: session.request returns or raises within    *)
(* the timeout, time.sleep returns, and the code between them is           *)
(* straight-line. The caller need not start requests or iterate.           *)
RequestStep ==
    \/ AttemptRaises
    \/ \E status \in Statuses : AttemptResponds(status)
    \/ Backoff
    \/ LoopExit
    \/ Finish
    \/ \E body \in Bodies, links \in LinkSets : Decode(body, links)

FairSpec == Spec /\ WF_vars(RequestStep)

(***************************************************************************)
(* Properties                                                              *)
(***************************************************************************)

Is5xx(s) == 500 <= s /\ s < 600
Is4xx(s) == 400 <= s /\ s < 500

(* max(retries + 1, 1) for the Connection's retries.                       *)
ExpectedIterations == IF retries + 1 >= 1 THEN retries + 1 ELSE 1

(* The loop of _try_request is over.                                       *)
LoopOver ==
    \/ pc \in {"after_loop", "decode"}
    \/ (pc = "done" /\ result.error # "UnencodableValue")

(* _try_request has returned or raised.                                    *)
TryRequestOver == pc \in {"decode", "done"}

(* The last attempt ended with a response that does not qualify for retry. *)
LastOutcomeFinal ==
    /\ attempts > 0
    /\ exception = NoException
    /\ ~ (Is5xx(response.status)
          \/ (response.status \in {429, 409} /\ retry_delay > 0))

C1Bounds ==
    /\ attempts <= ExpectedIterations
    /\ LoopOver => attempts >= 1

C1NoFurtherCall ==
    LastOutcomeFinal => attempts' <= attempts

C1Outcome ==
    pc = "after_loop" =>
        /\ pc' \in {"decode", "done"}
        /\ \/ /\ result'.kind = "returned"
              /\ result'.error = ""
              /\ result'.response = response
              /\ response.attempt = attempts
              /\ LastOutcomeFinal
              /\ pc' = IF kwargs.stream THEN "done" ELSE "decode"
           \/ /\ result'.kind = "raised"
              /\ result'.error # ""
              /\ pc' = "done"

(* C1: one call of _try_request issues at least 1 and at most              *)
(* max(retries + 1, 1) calls of session.request, issues none after the     *)
(* first response that does not qualify for retry, and always ends by      *)
(* returning that response or raising one error.                           *)
C1TryRequestBounded ==
    /\ []C1Bounds
    /\ [][C1NoFurtherCall]_vars
    /\ [][C1Outcome]_vars
    /\ (pc = "loop" ~> TryRequestOver)

C1Witness ==
    /\ pc = "done"
    /\ retries >= 1
    /\ attempts = retries + 1
    /\ result.kind = "raised"

(* The error class line 194 picks for a 4xx status.                        *)
ClientErrorOf(status) ==
    IF status \in DOMAIN STATUS_CODES THEN STATUS_CODES[status]
    ELSE "TrackerServerError"

(* C2: if every attempt returns a status in [500,600), then whatever the   *)
(* delay settings exactly max(retries + 1, 1) attempts are made and        *)
(* OutOfRetries is raised with the response of the last attempt.           *)
C2OutOfRetries ==
    (LoopOver /\ seen = "5xx") =>
        /\ attempts = ExpectedIterations
        /\ pc # "decode"
        /\ pc = "done" =>
              /\ result.kind = "raised"
              /\ result.error = "OutOfRetries"
              /\ result.response.attempt = attempts
              /\ result.response = response
              /\ Is5xx(result.response.status)

C2Witness ==
    /\ pc = "done"
    /\ seen = "5xx"
    /\ retries_initial_delay = 0
    /\ attempts > 1
    /\ result.error = "OutOfRetries"

(* The last attempt returned a 429 or 409 response.                        *)
LastWasConflict ==
    /\ attempts > 0
    /\ exception = NoException
    /\ response.status \in {429, 409}

(* C3: a 429 or 409 response is followed by another attempt only when the  *)
(* current retry delay is strictly positive; with a delay that is not      *)
(* positive it ends the loop at once and is raised as a client error, with *)
(* no further attempt and no sleep.                                        *)
C3ConflictNeedsDelay ==
    LastWasConflict =>
        /\ pc \in {"backoff", "loop"} => retry_delay > 0
        /\ retry_delay <= 0 =>
              /\ pc \in {"after_loop", "done"}
              /\ response.attempt = attempts
              /\ sleeps = <<>>
              /\ pc = "done" =>
                    /\ result.kind = "raised"
                    /\ result.error = ClientErrorOf(response.status)
                    /\ result.error \notin {"OutOfRetries",
                                            "TrackerRequestError"}
                    /\ result.response = response

C3Witness ==
    /\ pc = "done"
    /\ retries >= 1
    /\ retry_delay <= 0
    /\ response.status = 409
    /\ attempts = 1
    /\ result.error = "Conflict"

(* C4: when the first attempt returns a status in [400,500) that is not a  *)
(* retry-eligible 429/409, exactly one attempt is made and the error       *)
(* raised is the class STATUS_CODES gives for the status, or               *)
(* TrackerServerError when the table has none.                             *)
C4ClientErrorOnce ==
    (/\ attempts > 0
     /\ seen \in {"other", "409", "429"}
     /\ Is4xx(response.status)
     /\ ~ (response.status \in {429, 409} /\ retries_initial_delay > 0)) =>
        /\ attempts = 1
        /\ pc \in {"after_loop", "done"}
        /\ pc = "done" =>
              /\ result.kind = "raised"
              /\ result.error = ClientErrorOf(response.status)
              /\ result.response = [status |-> response.status,
                                    attempt |-> 1]

C4Witness ==
    /\ pc = "done"
    /\ retries >= 1
    /\ response.status = 404
    /\ attempts = 1
    /\ result.error = "NotFound"

(* C5: if every attempt raises, exactly max(retries + 1, 1) attempts are   *)
(* made and TrackerRequestError is raised with the exception of the last   *)
(* attempt; no exception leaves the loop before the attempts are used up.  *)
C5RequestErrorAfterAllAttempts ==
    seen = "raised" =>
        /\ exception = attempts
        /\ attempts < ExpectedIterations =>
              (pc \in {"loop", "backoff"} /\ result.kind = "none")
        /\ LoopOver =>
              /\ attempts = ExpectedIterations
              /\ pc # "decode"
        /\ pc = "done" =>
              /\ result.kind = "raised"
              /\ result.error = "TrackerRequestError"
              /\ result.cause = attempts

C5Witness ==
    /\ pc = "done"
    /\ seen = "raised"
    /\ attempts > 1
    /\ result.error = "TrackerRequestError"

(* C6: with a positive initial delay and retries >= 0, a request whose     *)
(* every attempt returns 409 (or every attempt 429) is attempted           *)
(* retries + 1 times, 4 times for retries = 3, and the error raised is the *)
(* client error of that status, not OutOfRetries.                          *)
C6ConflictRetried ==
    (/\ LoopOver
     /\ seen \in {"409", "429"}
     /\ retries_initial_delay > 0
     /\ retries >= 0) =>
        /\ attempts = retries + 1
        /\ retries = 3 => attempts = 4
        /\ pc # "decode"
        /\ pc = "done" =>
              /\ result.kind = "raised"
              /\ result.error = ClientErrorOf(response.status)
              /\ result.error # "OutOfRetries"
              /\ result.response = [status |-> response.status,
                                    attempt |-> attempts]
              /\ seen = "409" => result.response.status = 409
              /\ seen = "429" => result.response.status = 429

C6Witness ==
    /\ pc = "done"
    /\ retries = 3
    /\ retries_initial_delay = 1
    /\ seen = "409"
    /\ attempts = 4
    /\ result.error = "Conflict"

(* C7: within one request, for every configuration with                    *)
(* retries_delay_multiplier > 1, the delays passed to time.sleep are       *)
(* non-decreasing.                                                         *)
C7SleepsNonDecreasing ==
    retries_delay_multiplier > 1 =>
        \A i \in 1..(Len(sleeps) - 1) : sleeps[i] <= sleeps[i + 1]

(* An argument is given when it is neither None nor empty, which is how    *)
(* __init__ tests it.                                                      *)
Given(x) == x # Absent /\ x # ""

(* The constructor arguments that make __init__ fail.                      *)
BadArguments(a) ==
    \/ (Given(a.org_id) /\ Given(a.cloud_org_id))
    \/ (Given(a.token) /\ Given(a.iam_token))
    \/ (Given(a.iam_token) /\ ~Given(a.cloud_org_id))

(* C8: constructing a Connection fails with TrackerClientError, with no    *)
(* HTTP request issued, when org_id and cloud_org_id are both given, when  *)
(* token and iam_token are both given, or when iam_token is given without  *)
(* cloud_org_id; every other combination succeeds.                         *)
C8ConstructionErrors ==
    conn # "none" =>
        /\ (conn = "failed") <=> BadArguments(init_args)
        /\ conn = "failed" =>
              /\ init_error = "TrackerClientError"
              /\ attempts = 0
              /\ pc = "idle"
              /\ plist.gets = 0
        /\ conn = "ok" => init_error = ""

C8Witness ==
    /\ conn = "failed"
    /\ Given(init_args.iam_token)
    /\ ~Given(init_args.cloud_org_id)
    /\ ~Given(init_args.token)
    /\ init_error = "TrackerClientError"

C9InvalidJSONRaised ==
    result.error = "InvalidJSONResponse" =>
        /\ pc = "done"
        /\ result.kind = "raised"
        /\ content.body.kind = "invalid"
        /\ response.attempt = attempts
        /\ attempts <= ExpectedIterations

C9DecodeAfterLoop ==
    pc = "decode" => (pc' = "done" /\ attempts' = attempts)

C9NoAttemptAfterFailure ==
    result.error = "InvalidJSONResponse" => attempts' <= attempts

(* C9: a body that is not JSON raises InvalidJSONResponse and is never     *)
(* retried: decoding happens after the retry loop has returned, it leaves  *)
(* the number of attempts as it was whatever the body, and no attempt      *)
(* follows the decode failure.                                             *)
C9InvalidJSONNotRetried ==
    /\ []C9InvalidJSONRaised
    /\ [][C9DecodeAfterLoop]_vars
    /\ [][C9NoAttemptAfterFailure]_vars

C9Witness ==
    /\ pc = "done"
    /\ result.error = "InvalidJSONResponse"
    /\ attempts > 1

(* The element of the head made of one element of the decoded list.        *)
SameItem(r, item) ==
    /\ r.path = item.path
    /\ r.value = item.value
    /\ r.lfm = item.lfm
    /\ item.type = "raw" => r = item
    /\ item.type = "Reference" => r.type = "Resource"

C10HeadIsDecodedList ==
    (/\ pc = "done"
     /\ result.kind = "returned"
     /\ content.body.kind = "list"
     /\ "next" \in content.links) =>
        /\ result.value.type \in PaginatedTypes
        /\ Len(result.value.items) = Len(content.body.items)
        /\ \A i \in 1..Len(content.body.items) :
              SameItem(result.value.items[i], content.body.items[i])

C10DecodeIssuesNoRequest ==
    pc = "decode" => (attempts' = attempts /\ plist'.gets = plist.gets)

C10HeadBuffered ==
    (pc = "done" /\ pc' = "idle") =>
        plist' = [buf |-> result.value.items, pos |-> 0, next |-> TRUE,
                  gets |-> 0]

C10GetOnlyPastBuffer ==
    plist'.gets > plist.gets =>
        (plist.pos = Len(plist.buf) /\ plist'.buf = plist.buf)

(* C10: decoding a JSON list of a response with a "next" link yields a     *)
(* PaginatedList whose head is the decoded list, same items in the same    *)
(* order; the decoding issues no HTTP request, and the GET of the next     *)
(* page happens only when the consumer advances past the buffered items.   *)
C10LazyPaginatedList ==
    /\ []C10HeadIsDecodedList
    /\ [][C10DecodeIssuesNoRequest]_vars
    /\ [][C10HeadBuffered]_vars
    /\ [][C10GetOnlyPastBuffer]_vars

C10Witness ==
    /\ pc = "idle"
    /\ Len(plist.buf) = 2
    /\ plist.pos = 2
    /\ plist.gets = 1

(* The kind of result lines 244-255 give for the link relations.           *)
KindForLinks(links) ==
    IF "next" \in links /\ "seek" \in links THEN "SeekablePaginatedList"
    ELSE IF "next" \in links THEN "PaginatedList"
    ELSE "list"

(* C11: for a body that decodes to a JSON list the kind of the result is   *)
(* decided by the link relations alone: SeekablePaginatedList exactly with *)
(* both "next" and "seek", PaginatedList exactly with "next" and no        *)
(* "seek", a plain list without "next" (also with "seek" alone); the items *)
(* have the length and order of the decoded list.                          *)
C11KindFromLinks ==
    (/\ pc = "done"
     /\ content.body.kind = "list") =>
        /\ result.kind = "returned"
        /\ result.value.type = KindForLinks(content.links)
        /\ DOMAIN result.value.items = DOMAIN content.body.items
        /\ \A i \in DOMAIN content.body.items :
              /\ result.value.items[i].path = content.body.items[i].path
              /\ result.value.items[i].value = content.body.items[i].value

C11Witness ==
    /\ pc = "done"
    /\ content.body.kind = "list"
    /\ content.links = {"seek"}
    /\ result.value.type = "list"
    /\ Len(result.value.items) = 2

(* C12: decoding a response with an empty body returns None and never      *)
(* raises, whatever the status, headers and link relations of the          *)
(* response, and no JSON parsing is attempted.                             *)
C12EmptyBodyIsNone ==
    (/\ pc = "done"
     /\ content.body.kind = "empty") =>
        /\ result.kind = "returned"
        /\ result.error = ""
        /\ result.value = [type |-> "None", items |-> <<>>]
        /\ ~content.parsed

C12Witness ==
    /\ pc = "done"
    /\ content.body.kind = "empty"
    /\ content.links = {"next", "seek"}
    /\ response.status # 200
    /\ result.value.type = "None"

(* C13: the session headers of every successfully constructed Connection   *)
(* carry exactly one of X-Org-Id and X-Cloud-Org-Id, never both.           *)
C13OneOrgHeader ==
    conn = "ok" =>
        \/ (session_headers.XOrgId # Absent
            /\ session_headers.XCloudOrgId = Absent)
        \/ (session_headers.XOrgId = Absent
            /\ session_headers.XCloudOrgId # Absent)


(* A value json.dumps cannot serialise and encode_resource cannot encode:  *)
(* a Resource or Reference with none of key, uid, url, id, or any other    *)
(* object.                                                                 *)
Unencodable(o) ==
    /\ o.type # "json"
    /\ \/ o.type \notin {"Resource", "Reference"}
       \/ o.attrs \cap {"key", "uid", "url", "id"} = {}

(* C14: a request whose payload holds a value that cannot be encoded       *)
(* raises UnencodableValue before any attempt: session.request is not      *)
(* called and nothing sleeps for that request.                             *)
C14UnencodableBeforeAttempt ==
    (\E o \in kwargs.data.values : Unencodable(o)) =>
        /\ pc = "done"
        /\ result.kind = "raised"
        /\ result.error = "UnencodableValue"
        /\ attempts = 0
        /\ sleeps = <<>>
        /\ response = NoResponse
        /\ exception = NoException

C14Witness ==
    /\ pc = "done"
    /\ result.error = "UnencodableValue"
    /\ retries_initial_delay > 0
    /\ [type |-> "object", attrs |-> {"id"}] \in kwargs.data.values
    /\ [type |-> "Resource", attrs |-> {"key"}] \in kwargs.data.values
    /\ attempts = 0


(* No call changes the configuration of the Connection or the headers of   *)
(* its session.                                                            *)
C15Frame ==
    conn = "ok" =>
        /\ conn' = "ok"
        /\ base_url' = base_url
        /\ api_version' = api_version
        /\ timeout' = timeout
        /\ retries' = retries
        /\ retries_initial_delay' = retries_initial_delay
        /\ retries_delay_multiplier' = retries_delay_multiplier
        /\ retries_delay_upper_limit' = retries_delay_upper_limit
        /\ session_headers' = session_headers

(* The headers of a call come from the arguments of that call alone, and   *)
(* the session keeps the Content-Type of construction.                     *)
C15HeadersOfThisCall ==
    kwargs.entry # "" =>
        /\ kwargs.headers.IfMatch =
               IF kwargs.version = Absent THEN Unset
               ELSE "\"" \o kwargs.version \o "\""
        /\ kwargs.headers.ContentType =
               IF kwargs.files THEN Absent ELSE Unset
        /\ (kwargs.headers.Link # Unset) <=> (kwargs.entry = "link")
        /\ session_headers.ContentType = "application/json"

(* C15: after construction no sequence of request, stream, link and unlink *)
(* calls, succeeding or failing, changes base_url, api_version, timeout,   *)
(* the retry settings or the session headers; a file upload clears         *)
(* Content-Type and a version adds If-Match in the headers of that one     *)
(* call only.                                                              *)
C15ConfigurationUnchanged ==
    /\ []C15HeadersOfThisCall
    /\ [][C15Frame]_vars

C15Witness ==
    /\ pc = "done"
    /\ result.kind = "raised"
    /\ kwargs.files
    /\ kwargs.headers.ContentType = Absent
    /\ kwargs.headers.IfMatch = "\"7\""
    /\ session_headers.ContentType = "application/json"
    /\ timeout = DefaultTimeout


(* The attempt made last raised / returned a response.                     *)
LastAttemptRaised == attempts > 0 /\ exception = attempts
LastAttemptReturned ==
    attempts > 0 /\ exception = NoException /\ response.attempt = attempts

(* What _try_request ends with, decided at the end of the loop.            *)
C16Outcome ==
    pc = "after_loop" =>
        /\ LastAttemptRaised # LastAttemptReturned
        /\ LastAttemptRaised =>
              /\ result'.kind = "raised"
              /\ result'.error = "TrackerRequestError"
              /\ result'.cause = attempts
              /\ result'.response = NoResponse
        /\ LastAttemptReturned =>
              /\ result'.cause = NoException
              /\ result'.response = response
              /\ result'.error =
                     IF Is5xx(response.status) THEN "OutOfRetries"
                     ELSE IF Is4xx(response.status)
                         THEN ClientErrorOf(response.status)
                     ELSE ""
              /\ (result'.kind = "returned") <=> (result'.error = "")

(* C16: what _try_request ends with depends on the last attempt alone: if  *)
(* it raised, TrackerRequestError is raised with that exception, even when *)
(* an earlier attempt had returned a response, which is neither returned   *)
(* nor put into the error; if it returned a response, the status of that   *)
(* response alone decides and earlier exceptions are dropped.              *)
C16LastAttemptDecides == [][C16Outcome]_vars

C16Witness ==
    /\ pc = "done"
    /\ seen = "mixed"
    /\ 0 < response.attempt
    /\ response.attempt < attempts
    /\ exception = attempts
    /\ result.error = "TrackerRequestError"
    /\ result.response = NoResponse


(* The attempts of this request that ended in a retryable outcome: all of  *)
(* them, but for a last one that returned a response not to be retried.    *)
RetryableOutcomes == IF LastOutcomeFinal THEN attempts - 1 ELSE attempts

(* With a positive delay there is one sleep per retryable outcome; while   *)
(* the sleep after the latest attempt is still to come, one less.          *)
C17SleepCount ==
    retries_initial_delay > 0 =>
        Len(sleeps) = IF pc = "backoff" THEN RetryableOutcomes - 1
                      ELSE RetryableOutcomes

(* A sleep comes right after the attempt it belongs to, which had a        *)
(* retryable outcome, and an attempt is made only when every attempt       *)
(* before it has been slept on.                                            *)
C17Order ==
    /\ Len(sleeps') = Len(sleeps) + 1 =>
          /\ attempts' = attempts
          /\ Len(sleeps) = attempts - 1
          /\ ~LastOutcomeFinal
    /\ (retries_initial_delay > 0 /\ attempts' = attempts + 1) =>
          /\ Len(sleeps) = attempts
          /\ sleeps' = sleeps

(* C17: with a positive retry delay a sleep follows every attempt that     *)
(* ended in an exception or a retryable response, the last permitted       *)
(* attempt included, and none follows a response that is not retried: the  *)
(* sleeps of a request are as many as its retryable outcomes, each after   *)
(* its attempt and before the next.                                        *)
C17SleepAfterRetryable ==
    /\ []C17SleepCount
    /\ [][C17Order]_vars

C17Witness ==
    /\ pc = "done"
    /\ retries_initial_delay > 0
    /\ retries >= 1
    /\ attempts = retries + 1
    /\ Len(sleeps) = attempts
    /\ result.error = "OutOfRetries"


(* d_k of the backoff policy: d_0 is retries_initial_delay, d_(k+1) is d_k *)
(* times the multiplier when that is > 1, then the upper limit when        *)
(* 0 < limit < that value.                                                 *)
RECURSIVE DelayAt(_)
DelayAt(k) ==
    IF k = 0 THEN retries_initial_delay
    ELSE LET multiplied == IF retries_delay_multiplier > 1
                               THEN DelayAt(k - 1) * retries_delay_multiplier
                           ELSE DelayAt(k - 1)
         IN IF 0 < retries_delay_upper_limit
               /\ retries_delay_upper_limit < multiplied
            THEN retries_delay_upper_limit
            ELSE multiplied

(* C18: the sleeps of one request are d_0, d_1, ... in this order: the     *)
(* first is retries_initial_delay itself, not clamped and whatever         *)
(* requests came before, and with a positive upper limit every later one   *)
(* is at most the limit.                                                   *)
C18SleepDurations ==
    /\ \A k \in 1 .. Len(sleeps) : sleeps[k] = DelayAt(k - 1)
    /\ Len(sleeps) >= 1 => sleeps[1] = retries_initial_delay
    /\ retries_delay_upper_limit > 0 =>
          \A k \in 2 .. Len(sleeps) : sleeps[k] <= retries_delay_upper_limit

C18Witness ==
    /\ pc = "done"
    /\ Len(sleeps) >= 3
    /\ retries_delay_multiplier > 1
    /\ retries_delay_upper_limit > 0
    /\ sleeps[1] > retries_delay_upper_limit
    /\ sleeps[3] = retries_delay_upper_limit


(* _try_request has been entered for the request at hand.                  *)
InTryRequest == pc # "idle" /\ result.error # "UnencodableValue"

(* C19: throughout a request retry_delay is positive exactly if            *)
(* retries_initial_delay is, whatever the multiplier and the upper limit;  *)
(* so 429 and 409 are retried on every attempt of a request or on none,    *)
(* and a sleep follows every retryable outcome or none.                    *)
C19DelaySignFixed ==
    InTryRequest =>
        /\ (retry_delay > 0) <=> (retries_initial_delay > 0)
        /\ retries_initial_delay <= 0 => sleeps = <<>>
        /\ (retries_initial_delay > 0 /\ pc = "loop") =>
              Len(sleeps) = attempts
        /\ (seen \in {"409", "429"} /\ LoopOver) =>
              attempts = IF retries_initial_delay > 0
                         THEN ExpectedIterations ELSE 1

C19Witness ==
    /\ pc = "done"
    /\ seen = "409"
    /\ attempts >= 3
    /\ retry_delay > 0
    /\ retry_delay < retries_initial_delay
    /\ retries_delay_multiplier > 1

====
